---- MODULE Spec2Model ----
(***************************************************************************)
(* Model of graph_project.py: the interactive loop of main, the relation   *)
(* extraction of extract_entities_and_relations and the graph writes of    *)
(* store_in_graphdb.  Strings are sequences of one-character strings so    *)
(* that strip, lower, upper, startswith and join are computed, not assumed.*)
(***************************************************************************)
EXTENDS Integers, Sequences, FiniteSets, TLC

\* ------------------------------------------------------------------ bounds
MaxRuns == 2
MaxOut == 3

\* ----------------------------------------------------------------- strings
LowerChars == <<"a","b","c","d","e","f","g","h","i","j","k","l","m",
                "n","o","p","q","r","s","t","u","v","w","x","y","z">>
UpperChars == <<"A","B","C","D","E","F","G","H","I","J","K","L","M",
                "N","O","P","Q","R","S","T","U","V","W","X","Y","Z">>
Whitespace == {" ", "\t", "\n"}

UpperChar(c) ==
  IF \E i \in 1..26 : LowerChars[i] = c
  THEN UpperChars[CHOOSE i \in 1..26 : LowerChars[i] = c] ELSE c
LowerChar(c) ==
  IF \E i \in 1..26 : UpperChars[i] = c
  THEN LowerChars[CHOOSE i \in 1..26 : UpperChars[i] = c] ELSE c

\* str.upper(), str.lower()
Upper(s) == [i \in 1..Len(s) |-> UpperChar(s[i])]
Lower(s) == [i \in 1..Len(s) |-> LowerChar(s[i])]

\* str.strip(): drop leading and trailing whitespace
Strip(s) ==
  LET keep == {i \in 1..Len(s) : s[i] \notin Whitespace}
      Min(S) == CHOOSE x \in S : \A y \in S : x <= y
      Max(S) == CHOOSE x \in S : \A y \in S : x >= y
  IN IF keep = {} THEN <<>> ELSE SubSeq(s, Min(keep), Max(keep))

\* str.startswith(prefix)
StartsWith(s, p) == Len(s) >= Len(p) /\ SubSeq(s, 1, Len(p)) = p

\* " ".join(words)
RECURSIVE Join(_)
Join(ws) ==
  IF ws = <<>> THEN <<>>
  ELSE IF Len(ws) = 1 THEN ws[1]
  ELSE ws[1] \o <<" ">> \o Join(Tail(ws))

\* ------------------------------------------------------------- vocabulary
wThe      == <<"T","h","e">>
wthe      == <<"t","h","e">>
wcompany  == <<"c","o","m","p","a","n","y">>
wannounced == <<"a","n","n","o","u","n","c","e","d">>
wannounce == <<"a","n","n","o","u","n","c","e">>
wrecord   == <<"r","e","c","o","r","d">>
wprofits  == <<"p","r","o","f","i","t","s">>
wprofit   == <<"p","r","o","f","i","t">>
wdot      == <<".">>
wAcme     == <<"A","c","m","e">>
wApple    == <<"A","p","p","l","e">>
wapple    == <<"a","p","p","l","e">>
wJane     == <<"J","a","n","e">>
wSmith    == <<"S","m","i","t","h">>
wJaneSmith == <<"J","a","n","e"," ","S","m","i","t","h">>
whappy    == <<"h","a","p","p","y">>
wrose     == <<"r","o","s","e">>
wrise     == <<"r","i","s","e">>
wseen     == <<"s","e","e","n">>
wsee      == <<"s","e","e">>
wboss     == <<"b","o","s","s">>
wq        == <<"q">>
wHttp     == <<"h","t","t","p",":","/","/">>
wHttps    == <<"h","t","t","p","s",":","/","/">>
wArticle  == <<"A","r","t","i","c","l","e">>
wMENTIONS == <<"M","E","N","T","I","O","N","S">>
wORG      == <<"O","R","G">>
wPRODUCT  == <<"P","R","O","D","U","C","T">>
wPERSON   == <<"P","E","R","S","O","N">>
wANNOUNCE == <<"A","N","N","O","U","N","C","E">>
wrecordprofits == <<"r","e","c","o","r","d"," ","p","r","o","f","i","t","s">>

\* ------------------------------------------------------- parser output
\* A token as the parser exposes it: surface text, lemma, dependency role
\* and the index of its head (a root is its own head).
Tok(t, l, d, h) == [text |-> t, lemma |-> l, dep |-> d, head |-> h]
Ent(l, t) == [label |-> l, text |-> t]

\* "The company announced record profits."
DocCompany ==
  [tokens |-> << Tok(wThe, wthe, "det", 2),
                 Tok(wcompany, wcompany, "nsubj", 3),
                 Tok(wannounced, wannounce, "ROOT", 3),
                 Tok(wrecord, wrecord, "amod", 5),
                 Tok(wprofits, wprofit, "dobj", 3),
                 Tok(wdot, wdot, "punct", 3) >>,
   sents |-> << <<1, 6>> >>,
   ents |-> << >>]

\* Two sentences whose subject tokens have qualifying children; "Apple" is
\* recognised under two labels and "Acme" twice under the same label.
DocApple ==
  [tokens |-> << Tok(wAcme, wAcme, "nsubj", 4),
                 Tok(wthe, wthe, "det", 3),
                 Tok(wApple, wapple, "dobj", 1),
                 Tok(wrose, wrise, "ROOT", 4),
                 Tok(wJane, wJane, "compound", 7),
                 Tok(wSmith, wSmith, "nsubjpass", 8),
                 Tok(whappy, whappy, "acomp", 6),
                 Tok(wseen, wsee, "ROOT", 8),
                 Tok(wthe, wthe, "det", 10),
                 Tok(wboss, wboss, "attr", 6) >>,
   sents |-> << <<1, 4>>, <<5, 10>> >>,
   ents |-> << Ent(wORG, wAcme), Ent(wORG, wApple), Ent(wPRODUCT, wApple),
               Ent(wPERSON, wJaneSmith), Ent(wORG, wAcme) >>]

\* Yields entities {ORG: [Acme], PERSON: [Jane Smith]} and the single
\* triple (Acme, ANNOUNCE, profits); text and lemma are whatever the
\* parser supplies.
DocAcme ==
  [tokens |-> << Tok(wAcme, wAcme, "nsubj", 3),
                 Tok(wprofits, wannounce, "dobj", 1),
                 Tok(wrose, wrise, "ROOT", 3) >>,
   sents |-> << <<1, 3>> >>,
   ents |-> << Ent(wORG, wAcme), Ent(wPERSON, wJaneSmith) >>]

\* Empty text: no tokens, no sentences, no entities.
DocEmpty == [tokens |-> << >>, sents |-> << >>, ents |-> << >>]

Docs == {DocCompany, DocApple, DocAcme, DocEmpty}

\* ------------------------------------------------- linguistic analyzer
\* token.children: the tokens whose head is this token, in document order
Children(doc, i) ==
  SelectSeq([k \in 1..Len(doc.tokens) |-> k],
            LAMBDA k : k # i /\ doc.tokens[k].head = i)

\* i is c or a transitive dependent of c
RECURSIVE InSubtree(_, _, _, _)
InSubtree(doc, c, i, fuel) ==
  IF i = c THEN TRUE
  ELSE IF fuel = 0 \/ doc.tokens[i].head = i THEN FALSE
  ELSE InSubtree(doc, c, doc.tokens[i].head, fuel - 1)

\* token.subtree: the token and its descendants, in document order
Subtree(doc, c) ==
  SelectSeq([k \in 1..Len(doc.tokens) |-> k],
            LAMBDA k : InSubtree(doc, c, k, Len(doc.tokens)))

SubjectDeps == {"nsubj", "nsubjpass"}
ChildDeps == {"attr", "acomp", "dobj"}

\* variant: the determiners are kept
ObjectTextWithDet(doc, c) ==
  LET kept == Subtree(doc, c)
  IN Join([n \in 1..Len(kept) |-> doc.tokens[kept[n]].text])

\* obj = " ".join([t.text for t in child.subtree if t.dep_ != "det"])
ObjectText(doc, c) ==
  LET kept == SelectSeq(Subtree(doc, c), LAMBDA k : doc.tokens[k].dep # "det")
  IN Join([n \in 1..Len(kept) |-> doc.tokens[kept[n]].text])

Triple(s, p, o) == [subject |-> s, predicate |-> p, obj |-> o]

\* the triples of one subject token: one per qualifying child
TokenTriples(doc, i) ==
  LET cs == SelectSeq(Children(doc, i),
                      LAMBDA c : doc.tokens[c].dep \in ChildDeps)
  IN IF doc.tokens[i].dep \in SubjectDeps
     THEN [n \in 1..Len(cs) |->
             Triple(doc.tokens[i].text, Upper(doc.tokens[cs[n]].lemma),
                    ObjectText(doc, cs[n]))]
     ELSE << >>

\* tokens lo..hi of one sentence, in token order
RECURSIVE SentTriples(_, _, _)
SentTriples(doc, lo, hi) ==
  IF lo > hi THEN << >>
  ELSE TokenTriples(doc, lo) \o SentTriples(doc, lo + 1, hi)

\* for sent in doc.sents: for token in sent: ...
RECURSIVE Relationships(_, _)
Relationships(doc, s) ==
  IF s > Len(doc.sents) THEN << >>
  ELSE SentTriples(doc, doc.sents[s][1], doc.sents[s][2])
       \o Relationships(doc, s + 1)

\* the labels of doc.ents in first-seen order (dict insertion order)
RECURSIVE EntityLabels(_, _)
EntityLabels(ents, n) ==
  IF n = 0 THEN << >>
  ELSE LET prev == EntityLabels(ents, n - 1)
       IN IF \E k \in 1..Len(prev) : prev[k] = ents[n].label
          THEN prev ELSE Append(prev, ents[n].label)

\* entities[label]: the set of texts recognised under the label
EntitySet(ents, l) == {ents[k].text : k \in {j \in 1..Len(ents) : ents[j].label = l}}

\* list(v) of a set v: some enumeration of it without repetition
ListsOf(S) ==
  {q \in [1..Cardinality(S) -> S] : \A x \in S : \E k \in DOMAIN q : q[k] = x}

\* {k: list(v) for k, v in entities.items()} -- every outcome of the
\* set-to-list conversions, as a sequence of (type, names) items
EntityDicts(doc) ==
  LET ls == EntityLabels(doc.ents, Len(doc.ents))
  IN {d \in [1..Len(ls) -> UNION {{[type |-> l, names |-> q] :
                                     q \in ListsOf(EntitySet(doc.ents, l))} :
                                   l \in {ls[k] : k \in 1..Len(ls)}}] :
        \A k \in 1..Len(ls) : d[k].type = ls[k]}

\* ------------------------------------------------------------ environment
\* What the user may type at the prompt.
Inputs ==
  { <<"q">>, <<"Q">>, <<" ","q","\n">>, << >>, wAcme,
    <<"f","t","p",":","/","/","a">>,
    <<"H","T","T","P",":","/","/","a">>,
    wHttp \o <<"a">>,
    <<" ">> \o wHttps \o <<"b">> \o <<" ">> }

\* What the web may serve at a URL: a title and a text (given as its parse).
Articles ==
  { [title |-> wcompany, text |-> DocCompany],
    [title |-> wApple,   text |-> DocApple],
    [title |-> wAcme,    text |-> DocAcme],
    [title |-> << >>,    text |-> DocEmpty] }

\* ------------------------------------------------------------ graph store
\* Node(label, name=...): url is set on the Article node only (its
\* publish_date and authors properties are not modelled); created_in identifies the run whose Node object
\* this is (two runs never share a node).
Node(label, name, u, run) ==
  [kind |-> "node", label |-> label, name |-> name, url |-> u,
   created_in |-> run]
\* Relationship(start, type, end)
Relationship(a, t, b) == [kind |-> "edge", label |-> t, src |-> a, dst |-> b]

\* What an earlier process may have left in the store.
PriorStores ==
  LET art == Node(wArticle, wboss, wHttp \o <<"z">>, 0)
      n1  == Node(wORG, wAcme, << >>, 0)
      n2  == Node(wPERSON, wSmith, << >>, 0)
  IN { << >>,
       << art, n1, Relationship(art, wMENTIONS, n1),
          n2, Relationship(art, wMENTIONS, n2),
          Relationship(n1, wANNOUNCE, n2) >>,
       << art, n1 >> }

\* ------------------------------------------------------------------ state
VARIABLES pc, url, article_data, entity_data, article_node, entity_nodes,
          ei, ri, store, out, runs
vars == <<pc, url, article_data, entity_data, article_node, entity_nodes,
          ei, ri, store, out, runs>>

Msg(m, e, r) == [msg |-> m, entities |-> e, relationships |-> r]

NoArticle == [title |-> << >>, text |-> DocEmpty, url |-> << >>]
NoEntityData == [entities |-> << >>, relationships |-> << >>]
NoNode == Node(<< >>, << >>, << >>, -1)

Init ==
  /\ pc = "banner"
  /\ url = << >>
  /\ article_data = NoArticle
  /\ entity_data = NoEntityData
  /\ article_node = NoNode
  /\ entity_nodes = << >>
  /\ ei = 1
  /\ ri = 1
  /\ store \in PriorStores
  /\ out = << >>
  /\ runs = 0

\* ------------------------------------------------------- get_article_url
\* the banner printed on every call of get_article_url
Banner ==
  /\ pc = "banner"
  /\ out' = << Msg("banner", 0, 0) >>
  /\ pc' = "prompt"
  /\ UNCHANGED <<url, article_data, entity_data, article_node, entity_nodes,
                 ei, ri, store, runs>>

IsQuit(u) == Lower(u) = wq
\* variant: any scheme is accepted
IsUrlAnyScheme(u) ==
  \E i \in 1..Len(u) : i + 2 <= Len(u) /\ SubSeq(u, i, i + 2) = <<":","/","/">>
IsUrl(u) == StartsWith(u, wHttp) \/ StartsWith(u, wHttps)

\* url = input(...).strip(); 'q' in any case returns None
PromptQuit(raw) ==
  /\ pc = "prompt"
  /\ IsQuit(Strip(raw))
  /\ url' = Strip(raw)
  /\ pc' = "exiting"
  /\ UNCHANGED <<article_data, entity_data, article_node, entity_nodes,
                 ei, ri, store, out, runs>>

\* a URL with an http:// or https:// prefix is returned to main
PromptValid(raw) ==
  /\ pc = "prompt"
  /\ runs < MaxRuns
  /\ ~IsQuit(Strip(raw))
  /\ IsUrl(Strip(raw))
  /\ url' = Strip(raw)
  /\ runs' = runs + 1
  /\ pc' = "scrape"
  /\ UNCHANGED <<article_data, entity_data, article_node, entity_nodes,
                 ei, ri, store, out>>

\* anything else is rejected and the prompt repeats
PromptInvalid(raw) ==
  /\ pc = "prompt"
  /\ Len(out) < MaxOut
  /\ ~IsQuit(Strip(raw))
  /\ ~IsUrl(Strip(raw))
  /\ url' = Strip(raw)
  /\ out' = Append(out, Msg("Invalid URL", 0, 0))
  /\ pc' = "prompt"
  /\ UNCHANGED <<article_data, entity_data, article_node, entity_nodes,
                 ei, ri, store, runs>>

\* ------------------------------------------------------------------- main
\* if not article_url: print("Exiting program..."); break
Exit ==
  /\ pc = "exiting"
  /\ out' = Append(out, Msg("Exiting program", 0, 0))
  /\ pc' = "done"
  /\ UNCHANGED <<url, article_data, entity_data, article_node, entity_nodes,
                 ei, ri, store, runs>>

\* an exception raised inside the try block reaches the except clause
Raise ==
  /\ pc' = "error"

\* scrape_article(article_url): download and parse, or raise
ScrapeArticle ==
  /\ pc = "scrape"
  /\ \/ /\ \E a \in Articles :
             article_data' = [title |-> a.title, text |-> a.text, url |-> url]
        /\ out' = << Msg("Scraping", 0, 0) >>
        /\ pc' = "analyze"
     \/ /\ Raise
        /\ out' = << Msg("Scraping", 0, 0) >>
        /\ UNCHANGED article_data
  /\ UNCHANGED <<url, entity_data, article_node, entity_nodes, ei, ri,
                 store, runs>>

\* extract_entities_and_relations(article_data['text'])
ExtractResults(doc) ==
  {[entities |-> d, relationships |-> Relationships(doc, 1)] :
     d \in EntityDicts(doc)}

ExtractEntitiesAndRelations ==
  /\ pc = "analyze"
  /\ out' = Append(out, Msg("Extracting", 0, 0))
  /\ \/ /\ entity_data' \in ExtractResults(article_data.text)
        /\ pc' = "delete_all"
     \/ /\ Raise
        /\ UNCHANGED entity_data
  /\ UNCHANGED <<url, article_data, article_node, entity_nodes, ei, ri,
                 store, runs>>

\* ------------------------------------------------------ store_in_graphdb
\* for entity_type, entity_names in entities.items():
\*     for entity_name in entity_names:  -- the pairs in iteration order
RECURSIVE FlatPairs(_)
FlatPairs(entities) ==
  IF entities = << >> THEN << >>
  ELSE [n \in 1..Len(entities[1].names) |->
          [type |-> entities[1].type, name |-> entities[1].names[n]]]
       \o FlatPairs(Tail(entities))

\* variant: a failure of the store is swallowed and the run goes on
StoreCallSwallow(after, next) ==
  /\ store' \in {store, after}
  /\ pc' = next

\* one call of the store: it either performs the write, or raises, having
\* performed the write or not
StoreCall(after, next) ==
  \/ /\ store' = after
     /\ pc' = next
  \/ /\ Raise
     /\ store' \in {store, after}

\* variant: the clear is missing
DeleteAllKeeps(s) == s

\* graph.delete_all(): the store content after the clear
DeleteAllResult(s) == << >>

\* print("Storing data..."); graph.delete_all()
DeleteAll ==
  /\ pc = "delete_all"
  /\ out' = Append(out, Msg("Storing", 0, 0))
  /\ StoreCall(DeleteAllResult(store), "create_article")
  /\ article_node' = NoNode
  /\ entity_nodes' = << >>
  /\ ei' = 1
  /\ ri' = 1
  /\ UNCHANGED <<url, article_data, entity_data, runs>>

\* article_node = Node("Article", ...); graph.create(article_node);
\* entity_nodes = {}
CreateArticle ==
  /\ pc = "create_article"
  /\ article_node' = Node(wArticle, article_data.title, article_data.url, runs)
  /\ StoreCall(Append(store, article_node'), "entities")
  /\ UNCHANGED <<url, article_data, entity_data, entity_nodes, ei, ri,
                 out, runs>>

\* variant: the membership test is missing, every pair creates a node
IsNewNameAlways(nodes, name) == TRUE

\* if entity_name not in entity_nodes
IsNewName(nodes, name) == name \notin DOMAIN nodes

\* variant: the MENTIONS edge points from the entity to the article
MentionsEdgeReversed(article, node) == Relationship(node, wMENTIONS, article)

\* Relationship(article_node, "MENTIONS", node)
MentionsEdge(article, node) == Relationship(article, wMENTIONS, node)

\* one iteration of the entity loop up to graph.create(node); a name
\* already in entity_nodes is passed over
CreateEntity ==
  /\ pc = "entities"
  /\ ei <= Len(FlatPairs(entity_data.entities))
  /\ LET p == FlatPairs(entity_data.entities)[ei]
         node == Node(p.type, p.name, << >>, runs)
     IN IF IsNewName(entity_nodes, p.name)
        THEN /\ entity_nodes' = (p.name :> node) @@ entity_nodes
             /\ StoreCall(Append(store, node), "mention")
             /\ UNCHANGED ei
        ELSE /\ ei' = ei + 1
             /\ UNCHANGED <<pc, entity_nodes, store>>
  /\ UNCHANGED <<url, article_data, entity_data, article_node, ri, out, runs>>

\* rel = Relationship(article_node, "MENTIONS", node); graph.create(rel)
CreateMentions ==
  /\ pc = "mention"
  /\ LET p == FlatPairs(entity_data.entities)[ei]
     IN StoreCall(Append(store, MentionsEdge(article_node,
                                             entity_nodes[p.name])),
                  "entities")
  /\ ei' = ei + 1
  /\ UNCHANGED <<url, article_data, entity_data, article_node, entity_nodes,
                 ri, out, runs>>

\* the entity loop is exhausted
EntitiesDone ==
  /\ pc = "entities"
  /\ ei > Len(FlatPairs(entity_data.entities))
  /\ pc' = "relations"
  /\ UNCHANGED <<url, article_data, entity_data, article_node, entity_nodes,
                 ei, ri, store, out, runs>>

\* variant: the membership test names the predicate instead of the object
ResolvedWrongOperand(nodes, rel) ==
  rel.subject \in DOMAIN nodes /\ rel.predicate \in DOMAIN nodes

\* if subject in entity_nodes and obj in entity_nodes
Resolved(nodes, rel) ==
  rel.subject \in DOMAIN nodes /\ rel.obj \in DOMAIN nodes

\* one iteration of the relationship loop
CreateRelationship ==
  /\ pc = "relations"
  /\ ri <= Len(entity_data.relationships)
  /\ LET rel == entity_data.relationships[ri]
     IN IF Resolved(entity_nodes, rel)
        THEN StoreCall(Append(store, Relationship(entity_nodes[rel.subject],
                                                  rel.predicate,
                                                  entity_nodes[rel.obj])),
                       "relations")
        ELSE UNCHANGED <<pc, store>>
  /\ ri' = ri + 1
  /\ UNCHANGED <<url, article_data, entity_data, article_node, entity_nodes,
                 ei, out, runs>>

\* the counts of print(f"Stored {len(entity_nodes)} entities and
\* {len(entity_data['relationships'])} relationships")
StoredEntityCount(nodes) == Cardinality(DOMAIN nodes)
StoredRelationshipCount(data) == Len(data.relationships)

PrintStored ==
  /\ pc = "relations"
  /\ ri > Len(entity_data.relationships)
  /\ out' = Append(out, Msg("Stored", StoredEntityCount(entity_nodes),
                            StoredRelationshipCount(entity_data)))
  /\ pc' = "summary"
  /\ UNCHANGED <<url, article_data, entity_data, article_node, entity_nodes,
                 ei, ri, store, runs>>

\* ---------------------------------------------------- main, after the store
\* sum(len(v) for v in entity_data['entities'].values())
RECURSIVE FoundEntityCount(_)
FoundEntityCount(entities) ==
  IF entities = << >> THEN 0
  ELSE Len(entities[1].names) + FoundEntityCount(Tail(entities))
FoundRelationshipCount(data) == Len(data.relationships)

\* the "Processing Complete!" summary
Summary ==
  /\ pc = "summary"
  /\ out' = Append(out, Msg("Processing Complete",
                            FoundEntityCount(entity_data.entities),
                            FoundRelationshipCount(entity_data)))
  /\ pc' = "banner"
  /\ UNCHANGED <<url, article_data, entity_data, article_node, entity_nodes,
                 ei, ri, store, runs>>

\* except Exception as e: print(f"Error processing article: {e}")
ErrorHandler ==
  /\ pc = "error"
  /\ out' = Append(out, Msg("Error processing article", 0, 0))
  /\ pc' = "banner"
  /\ UNCHANGED <<url, article_data, entity_data, article_node, entity_nodes,
                 ei, ri, store, runs>>

Next ==
  \/ Banner
  \/ \E raw \in Inputs : PromptQuit(raw)
  \/ \E raw \in Inputs : PromptValid(raw)
  \/ \E raw \in Inputs : PromptInvalid(raw)
  \/ Exit
  \/ ScrapeArticle
  \/ ExtractEntitiesAndRelations
  \/ DeleteAll
  \/ CreateArticle
  \/ CreateEntity
  \/ CreateMentions
  \/ EntitiesDone
  \/ CreateRelationship
  \/ PrintStored
  \/ Summary
  \/ ErrorHandler

Spec == Init /\ [][Next]_vars

\* main is a single thread: once the except clause is entered it prints and
\* the loop calls get_article_url again
FairSpec == Spec /\ WF_vars(ErrorHandler) /\ WF_vars(Banner)

\* ============================================================ properties
\* ---- vocabulary of the properties, read off the store and the input
Positions == DOMAIN store
IsArticleNode(x) == x.kind = "node" /\ x.label = wArticle
IsEntityNode(x) == x.kind = "node" /\ x.label # wArticle
IsMentions(x) == x.kind = "edge" /\ x.label = wMENTIONS
IsRelationEdge(x) == x.kind = "edge" /\ x.label # wMENTIONS
EntityNodePositions == {k \in Positions : IsEntityNode(store[k])}
MentionsPositions == {k \in Positions : IsMentions(store[k])}
RelationEdgePositions == {k \in Positions : IsRelationEdge(store[k])}

\* the keys of the flattened name->node mapping built from the entity set
EntityKeys ==
  UNION {{entity_data.entities[k].names[n] :
            n \in DOMAIN entity_data.entities[k].names} :
         k \in DOMAIN entity_data.entities}
BothKeys(t) == t.subject \in EntityKeys /\ t.obj \in EntityKeys

\* the store positions holding an edge for triple t
EdgesOf(t) ==
  {k \in RelationEdgePositions :
     /\ store[k].label = t.predicate
     /\ IsEntityNode(store[k].src) /\ store[k].src.name = t.subject
     /\ IsEntityNode(store[k].dst) /\ store[k].dst.name = t.obj}
\* the triples the relationship loop has passed so far
Processed == 1..(ri - 1)
OccurrencesIn(t, K) == {j \in K : entity_data.relationships[j] = t}

\* the relationship loop is running or has completed without an error
InRelationshipLoop == pc \in {"relations", "summary"}
Completed == pc = "summary"

\* C1: in store_in_graphdb without a store error, each triple the loop has
\* passed has a predicate-labeled edge from its subject's entity node to its
\* object's entity node if and only if both strings are keys of the
\* flattened entity mapping (one edge per such triple); a triple with a side
\* absent has no edge, and no node beyond the Article node and one per key
\* exists.
C1_EdgeIffBothKeys ==
  InRelationshipLoop =>
    /\ \A j \in Processed :
         LET t == entity_data.relationships[j]
         IN /\ (EdgesOf(t) # {}) <=> BothKeys(t)
            /\ BothKeys(t) =>
                 Cardinality(EdgesOf(t)) = Cardinality(OccurrencesIn(t, Processed))
    /\ Cardinality(RelationEdgePositions)
         = Cardinality({j \in Processed : BothKeys(entity_data.relationships[j])})
    /\ Cardinality({k \in Positions : store[k].kind = "node"})
         = 1 + Cardinality(EntityKeys)

\* a completed run with one triple materialized and one skipped
C1_Witness ==
  /\ Completed
  /\ \E j \in DOMAIN entity_data.relationships :
       BothKeys(entity_data.relationships[j])
  /\ \E j \in DOMAIN entity_data.relationships :
       ~BothKeys(entity_data.relationships[j])
  /\ RelationEdgePositions # {}

\* the messages that report counts
CountMessages == {k \in DOMAIN out : out[k].msg \in {"Stored", "Processing Complete"}}

\* C2: the relationship count reported by store_in_graphdb and by main's
\* summary equals the number of entity-to-entity edges created (MENTIONS
\* edges and skipped triples not counted).
C2_ReportedRelationshipsAreEdges ==
  \A k \in CountMessages :
    out[k].relationships = Cardinality(RelationEdgePositions)

\* C3: the entity count reported by store_in_graphdb and by main's summary
\* equals the number of distinct surface names across all types, and the
\* number of entity nodes created.
C3_ReportedEntitiesAreDistinctNames ==
  \A k \in CountMessages :
    /\ out[k].entities = Cardinality(EntityKeys)
    /\ out[k].entities = Cardinality(EntityNodePositions)

\* the types under which a name is listed, and the positions of its pairs
PairsOfName(n) ==
  {k \in DOMAIN FlatPairs(entity_data.entities) :
     FlatPairs(entity_data.entities)[k].name = n}
TypesOfName(n) == {FlatPairs(entity_data.entities)[k].type : k \in PairsOfName(n)}
AmbiguousNames == {n \in EntityKeys : Cardinality(TypesOfName(n)) > 1}
NodesNamed(n) == {k \in EntityNodePositions : store[k].name = n}
FirstOf(K) == CHOOSE k \in K : \A j \in K : k <= j
LastOf(K) == CHOOSE k \in K : \A j \in K : k >= j

\* C4 as stated: a name listed under two types gets exactly one node,
\* labeled with the type of the pair processed last.
C4_LastTypeWins ==
  Completed =>
    \A n \in AmbiguousNames :
      /\ Cardinality(NodesNamed(n)) = 1
      /\ \A k \in NodesNamed(n) :
           store[k].label = FlatPairs(entity_data.entities)[LastOf(PairsOfName(n))].type

\* C4 amended: a name listed under two types gets exactly one node, labeled
\* with the type of the pair processed first.
C4_FirstTypeWins ==
  Completed =>
    \A n \in AmbiguousNames :
      /\ Cardinality(NodesNamed(n)) = 1
      /\ \A k \in NodesNamed(n) :
           store[k].label = FlatPairs(entity_data.entities)[FirstOf(PairsOfName(n))].type

\* a completed run whose input lists a name under two types
C4_Witness ==
  /\ Completed
  /\ AmbiguousNames # {}
  /\ \A n \in AmbiguousNames : NodesNamed(n) # {}

\* node x has, before position k, a MENTIONS edge from an Article node
MentionedBefore(x, k) ==
  \E m \in MentionsPositions :
    /\ m < k
    /\ store[m].dst = x
    /\ IsArticleNode(store[m].src)
    /\ \E a \in 1..(m - 1) : store[a] = store[m].src
EntityNodeBefore(x, k) ==
  \E e \in EntityNodePositions : e < k /\ store[e] = x

\* C5: every relation edge in the store has both endpoints among the entity
\* nodes, each already linked from the Article node by a MENTIONS edge; once
\* the entity loop has finished, MENTIONS edges and entity nodes correspond
\* one to one.
C5_RelationEndpointsMentioned ==
  /\ \A k \in RelationEdgePositions :
       /\ EntityNodeBefore(store[k].src, k) /\ MentionedBefore(store[k].src, k)
       /\ EntityNodeBefore(store[k].dst, k) /\ MentionedBefore(store[k].dst, k)
  /\ InRelationshipLoop =>
       /\ \A e \in EntityNodePositions :
            Cardinality({m \in MentionsPositions : store[m].dst = store[e]}) = 1
       /\ \A m \in MentionsPositions :
            /\ Cardinality({e \in EntityNodePositions : store[e] = store[m].dst}) = 1
            /\ store[m].src = article_node
       /\ Cardinality(MentionsPositions) = Cardinality(EntityNodePositions)

\* a relation edge of the current run is in the store
C5_Witness ==
  /\ InRelationshipLoop
  /\ \E k \in RelationEdgePositions : store[k].src.created_in = runs
  /\ Cardinality(MentionsPositions) >= 2

\* ---- the session
PipelinePcs == {"scrape", "analyze", "delete_all", "create_article",
                "entities", "mention", "relations", "summary"}
HasHttpPrefix(u) ==
  \/ Len(u) >= 7 /\ SubSeq(u, 1, 7) = <<"h","t","t","p",":","/","/">>
  \/ Len(u) >= 8 /\ SubSeq(u, 1, 8) = <<"h","t","t","p","s",":","/","/">>
IsSentinel(u) == u \in {<<"q">>, <<"Q">>}
Printed(m) == \E k \in DOMAIN out : out[k].msg = m
LastPrinted(m) == out # << >> /\ out[Len(out)].msg = m

\* C6: a failure while processing an article is reported and followed by a
\* new prompt, never by the end of the session; an input without an http://
\* or https:// prefix never starts the pipeline and is re-prompted; the
\* session ends only on the sentinel 'q' in either case.  (Inputs are taken
\* after the strip() the prompt applies.)
C6_SessionSurvivesFailures ==
  /\ [][ /\ pc = "error" =>
              pc' = "banner" /\ out'[Len(out')].msg = "Error processing article"
         /\ pc \in PipelinePcs => pc' \in PipelinePcs \cup {"error", "banner"}
         /\ (pc = "prompt" /\ pc' = "scrape") => HasHttpPrefix(url')
         /\ (pc = "prompt" /\ url' # url /\ ~HasHttpPrefix(url') /\ ~IsSentinel(url'))
              => pc' = "prompt" /\ LastPrinted("Invalid URL")'
         /\ (pc' \in {"exiting", "done"} /\ pc \notin {"exiting", "done"})
              => pc = "prompt" /\ IsSentinel(url') ]_vars
  /\ (pc = "error" ~> pc = "prompt")

\* a second article failed and the session is about to prompt again
C6_Witness ==
  /\ pc = "banner"
  /\ runs >= 2
  /\ LastPrinted("Error processing article")

\* ---- the writes of the current article
CurrentArticleNode == Node(wArticle, article_data.title, article_data.url, runs)
AllWritesPerformed ==
  /\ \E k \in Positions : store[k] = CurrentArticleNode
  /\ \A n \in EntityKeys :
       Cardinality({k \in EntityNodePositions :
                      store[k].name = n /\ store[k].created_in = runs}) = 1
  /\ \A e \in EntityNodePositions :
       \E m \in MentionsPositions :
         store[m].src = CurrentArticleNode /\ store[m].dst = store[e]
  /\ \A j \in DOMAIN entity_data.relationships :
       LET t == entity_data.relationships[j]
       IN BothKeys(t) =>
            Cardinality(EdgesOf(t))
              = Cardinality(OccurrencesIn(t, DOMAIN entity_data.relationships))

\* C7: a failed store operation is never passed over silently: the success
\* summary is printed only when every write of the article has been
\* performed, and a run that ends with a write missing has printed the error
\* message and not the summary.
C7_NoSilentDrop ==
  /\ (pc = "summary" \/ Printed("Processing Complete")) =>
       AllWritesPerformed /\ ~Printed("Error processing article")
  /\ Printed("Processing Complete") => pc = "banner"
  /\ (pc = "banner" /\ runs > 0 /\ ~AllWritesPerformed) =>
       LastPrinted("Error processing article")

\* a run that failed in the middle of its writes and reported it
C7_Witness ==
  /\ pc = "banner"
  /\ article_node = CurrentArticleNode
  /\ EntityNodePositions # {}
  /\ ~AllWritesPerformed
  /\ LastPrinted("Error processing article")

\* ---- the analyzer
\* the analyzer has just returned the result for article_data.text
Analyzed == pc = "delete_all"

\* C8: for the parse of "The company announced record profits." the relation
\* list contains (company, ANNOUNCE, record profits).
C8_CompanyTriple ==
  (Analyzed /\ article_data.text = DocCompany) =>
    \E k \in DOMAIN entity_data.relationships :
      entity_data.relationships[k] = Triple(wcompany, wANNOUNCE, wrecordprofits)

\* the (subject token, child) pairs of a parse
QualifyingPairs(doc) ==
  {p \in (DOMAIN doc.tokens) \X (DOMAIN doc.tokens) :
     /\ doc.tokens[p[1]].dep \in {"nsubj", "nsubjpass"}
     /\ p[2] # p[1]
     /\ doc.tokens[p[2]].head = p[1]
     /\ doc.tokens[p[2]].dep \in {"attr", "acomp", "dobj"}}
SentenceOf(doc, i) ==
  CHOOSE s \in DOMAIN doc.sents : doc.sents[s][1] <= i /\ i <= doc.sents[s][2]
\* sentence order, then token order, then order of the children
PairBefore(doc, p, q) ==
  \/ SentenceOf(doc, p[1]) < SentenceOf(doc, q[1])
  \/ SentenceOf(doc, p[1]) = SentenceOf(doc, q[1]) /\ p[1] < q[1]
  \/ p[1] = q[1] /\ p[2] < q[2]
PairRank(doc, p) ==
  1 + Cardinality({q \in QualifyingPairs(doc) : PairBefore(doc, q, p)})
\* the tokens of a subtree, grown from its root downwards
RECURSIVE Dependents(_, _)
Dependents(doc, S) ==
  LET T == S \cup {k \in DOMAIN doc.tokens : doc.tokens[k].head \in S}
  IN IF T = S THEN S ELSE Dependents(doc, T)
KeptTokens(doc, c) ==
  {k \in Dependents(doc, {c}) : doc.tokens[k].dep # "det"}
RECURSIVE TextLength(_, _)
TextLength(doc, K) ==
  IF K = {} THEN 0
  ELSE LET k == CHOOSE x \in K : TRUE
       IN Len(doc.tokens[k].text) + 1 + TextLength(doc, K \ {k})
\* o is the texts of the tokens K in original order, a space between them
IsTextOf(doc, K, o) ==
  /\ Len(o) = (IF K = {} THEN 0 ELSE TextLength(doc, K) - 1)
  /\ \A k \in K :
       LET off == TextLength(doc, {j \in K : j < k})
       IN /\ SubSeq(o, off + 1, off + Len(doc.tokens[k].text)) = doc.tokens[k].text
          /\ off > 0 => o[off] = " "
IsUppercased(l, u) ==
  /\ Len(u) = Len(l)
  /\ \A i \in DOMAIN l :
       \/ \E a \in 1..26 : LowerChars[a] = l[i] /\ u[i] = UpperChars[a]
       \/ (\A a \in 1..26 : LowerChars[a] # l[i]) /\ u[i] = l[i]

\* C9: the relation list is exactly one triple per (subject token with role
\* nsubj or nsubjpass, direct child with role attr, acomp or dobj), in
\* sentence order then token order; subject is the subject token's text,
\* predicate the child's lemma uppercased, object the texts of the child's
\* subtree in original order without the det tokens.
C9_OneTriplePerPair ==
  Analyzed =>
    LET doc == article_data.text
        rels == entity_data.relationships
    IN /\ Len(rels) = Cardinality(QualifyingPairs(doc))
       /\ \A p \in QualifyingPairs(doc) :
            LET t == rels[PairRank(doc, p)]
            IN /\ t.subject = doc.tokens[p[1]].text
               /\ IsUppercased(doc.tokens[p[2]].lemma, t.predicate)
               /\ IsTextOf(doc, KeptTokens(doc, p[2]), t.obj)

\* a parse with several pairs, two sentences and determiners in subtrees
C9_Witness ==
  /\ Analyzed
  /\ Len(entity_data.relationships) >= 3
  /\ Len(article_data.text.sents) >= 2
  /\ \E p \in QualifyingPairs(article_data.text) :
       /\ KeptTokens(article_data.text, p[2]) # Dependents(article_data.text, {p[2]})
       /\ Cardinality(KeptTokens(article_data.text, p[2])) >= 1
  /\ \E p \in QualifyingPairs(article_data.text) :
       Cardinality(KeptTokens(article_data.text, p[2])) >= 2

\* ---- the store across runs
\* the current run has passed its delete_all
PastClear == runs > 0 /\ article_node.created_in = runs
StoredWithoutError == pc = "summary" \/ Printed("Stored")
CurrentEntityNodeBefore(x, k) ==
  /\ x.created_in = runs
  /\ IsEntityNode(x)
  /\ \E e \in 1..(k - 1) : store[e] = x
DerivedFromCurrentArticle(k) ==
  LET x == store[k]
  IN \/ /\ x = CurrentArticleNode
        /\ k = 1
     \/ /\ IsEntityNode(x)
        /\ x.created_in = runs
        /\ x.name \in EntityKeys
        /\ x.label \in TypesOfName(x.name)
     \/ /\ IsMentions(x)
        /\ x.src = CurrentArticleNode
        /\ k > 1 /\ store[k - 1] = x.dst
        /\ CurrentEntityNodeBefore(x.dst, k)
     \/ /\ IsRelationEdge(x)
        /\ CurrentEntityNodeBefore(x.src, k)
        /\ CurrentEntityNodeBefore(x.dst, k)
        /\ \E j \in DOMAIN entity_data.relationships :
             LET t == entity_data.relationships[j]
             IN x.label = t.predicate /\ x.src.name = t.subject
                /\ x.dst.name = t.obj
        /\ \A n \in EntityKeys : NodesNamed(n) # {}
        /\ Cardinality(MentionsPositions) = Cardinality(EntityNodePositions)

\* C10: whatever the store held before and whatever earlier runs wrote, once
\* the run has passed its delete_all the store holds only writes of the
\* current article, in the order the run makes them (a prefix of them if the
\* run fails: no rollback); when store_in_graphdb completes without error it
\* holds exactly one Article node, the current one, and exactly one entity
\* node per distinct entity name.
C10_StoreHoldsOnlyCurrentRun ==
  PastClear =>
    /\ \A k \in Positions : DerivedFromCurrentArticle(k)
    /\ \A n \in EntityKeys : Cardinality(NodesNamed(n)) <= 1
    /\ StoredWithoutError =>
         /\ Cardinality({k \in Positions : IsArticleNode(store[k])}) = 1
         /\ store[1] = CurrentArticleNode
         /\ \A n \in EntityKeys : Cardinality(NodesNamed(n)) = 1
         /\ Cardinality(EntityNodePositions) = Cardinality(EntityKeys)

\* a second run has completed its store with entities and edges
C10_Witness ==
  /\ runs >= 2
  /\ pc = "summary"
  /\ EntityNodePositions # {}
  /\ RelationEdgePositions # {}

\* a run failed after its clear and left part of its writes behind
C10_WitnessPartial ==
  /\ PastClear
  /\ pc = "error"
  /\ store # << >>
  /\ ~AllWritesPerformed
====
